---- MODULE Spec2Model ----
(***************************************************************************)
(* Model of metaimport (src/metaimport.go): the command that lists the     *)
(* files of a Git tree, resolves the Go package directories                *)
(* (packageDirs), chooses the go-source link strategy                      *)
(* (determineGodocSpec) and assembles one document per directory (main).   *)
(*                                                                         *)
(* Strings are sequences of one-character strings, so that prefix, suffix, *)
(* directory and base-name computations are carried out character by       *)
(* character as the Go library does them.                                  *)
(***************************************************************************)
EXTENDS Naturals, Sequences, FiniteSets

VARIABLES
    tree,                \* the file names (full slash-separated paths) of the HEAD tree
    iter,                \* packageDirs: the files tree.Files() has not yielded yet
    dirs,                \* packageDirs: the local map "dirs" (its key set)
    result,              \* main: what packageDirs returned, (dirs, err)
    pc,                  \* main's position
    baseImportPrefix,    \* args[0]
    repoURL,             \* args[1]
    urlValid,            \* how repoURL was put together: FALSE when malformed
    urlHost,             \* how repoURL was put together: its host[:port] part
    branch,              \* the -branch flag ("" when not given)
    godoc,               \* the -godoc flag
    godocRedirect,       \* the -redirect flag
    defaultBranch,       \* what the remote reports as its default branch
    godocSpec,           \* main: the GodocSpec, NilSpec when nil
    todo,                \* main: the keys "for d := range dirs" has not visited yet
    d,                   \* main: the loop variable d at the end of the last iteration
    files,               \* main: the slice "files"
    iterErr,             \* packageDirs: the error iter.Next() last returned
    outputDir,           \* the -o flag ("" when not given)
    fsDirs,              \* the file system: the directories that exist
    fsFiles,             \* the file system: the regular files, each with its contents
    fileIndex,           \* main: the index in "files" the write loop is at
    fatal                \* what log.Fatalf has reported, NoFatal before

\* What the write phase of main works on.
outVars == <<outputDir, fsDirs, fsFiles, fileIndex>>

vars == <<tree, iter, dirs, result, pc, baseImportPrefix, repoURL, urlValid,
          urlHost, branch, godoc, godocRedirect, defaultBranch, godocSpec,
          todo, d, files, iterErr, outVars, fatal>>

(***************************************************************************)
(* Bounds.                                                                 *)
(***************************************************************************)
MaxFiles == 4

(***************************************************************************)
(* Literals of the program.                                                *)
(***************************************************************************)
Separator == "/"

Empty == <<>>

Dot == <<".">>

DotDot == <<".", ".">>

TESTDATA == <<"t", "e", "s", "t", "d", "a", "t", "a">>

DOT_GO == <<".", "g", "o">>

REFS_HEADS == <<"r", "e", "f", "s", "/", "h", "e", "a", "d", "s", "/">>

GITHUB_COM == <<"g", "i", "t", "h", "u", "b", ".", "c", "o", "m">>

BITBUCKET_ORG == <<"b", "i", "t", "b", "u", "c", "k", "e", "t", ".", "o", "r", "g">>

GODOC_ORG == <<"h", "t", "t", "p", "s", ":", "/", "/", "g", "o", "d", "o", "c", ".", "o", "r", "g", "/">>

GH_TREE == <<"/", "t", "r", "e", "e", "/">>

DIR_TMPL == <<"{", "/", "d", "i", "r", "}">>

GH_FILE_TMPL == <<"{", "/", "d", "i", "r", "}", "/", "{", "f", "i", "l", "e", "}", "#", "L", "{", "l", "i", "n", "e", "}">>

BB_SRC == <<"/", "s", "r", "c", "/", "H", "E", "A", "D">>

BB_FILE_TMPL == <<"{", "/", "d", "i", "r", "}", "/", "{", "f", "i", "l", "e", "}", "?", "f", "i", "l", "e", "v", "i", "e", "w", "e", "r", "=", "f", "i", "l", "e", "-", "v", "i", "e", "w", "-", "d", "e", "f", "a", "u", "l", "t", "#", "{", "f", "i", "l", "e", "}", "-", "{", "l", "i", "n", "e", "}">>

GIT == <<"g", "i", "t">>

HOME_NONE == <<"_">>

(***************************************************************************)
(* package strings.                                                        *)
(***************************************************************************)
HasPrefix(s, prefix) ==
    /\ Len(s) >= Len(prefix)
    /\ SubSeq(s, 1, Len(prefix)) = prefix

HasSuffix(s, suffix) ==
    /\ Len(s) >= Len(suffix)
    /\ SubSeq(s, Len(s) - Len(suffix) + 1, Len(s)) = suffix

TrimPrefix(s, prefix) ==
    IF HasPrefix(s, prefix) THEN SubSeq(s, Len(prefix) + 1, Len(s)) ELSE s

\* strings.Index for a one-character separator, 1-based; 0 when absent.
Index(s, c) ==
    IF \E i \in 1..Len(s) : s[i] = c
    THEN CHOOSE i \in 1..Len(s) : s[i] = c /\ \A j \in 1..(i - 1) : s[j] # c
    ELSE 0

\* strings.LastIndex for a one-character separator, 1-based; 0 when absent.
LastIndex(s, c) ==
    IF \E i \in 1..Len(s) : s[i] = c
    THEN CHOOSE i \in 1..Len(s) : s[i] = c /\ \A j \in (i + 1)..Len(s) : s[j] # c
    ELSE 0

RECURSIVE Split(_, _)
Split(s, c) ==
    IF Index(s, c) = 0
    THEN <<s>>
    ELSE <<SubSeq(s, 1, Index(s, c) - 1)>> \o Split(SubSeq(s, Index(s, c) + 1, Len(s)), c)

RECURSIVE JoinSep(_, _)
JoinSep(elems, c) ==
    IF elems = <<>> THEN <<>>
    ELSE IF Len(elems) = 1 THEN elems[1]
    ELSE elems[1] \o <<c>> \o JoinSep(Tail(elems), c)

(***************************************************************************)
(* package path and path/filepath (Separator is '/').                      *)
(***************************************************************************)
\* The element stack of Clean after reading the elements of "elems" in order.
RECURSIVE CleanElems(_, _, _)
CleanElems(elems, out, rooted) ==
    IF elems = <<>> THEN out
    ELSE LET e == Head(elems)
             next == IF e = Empty \/ e = Dot THEN out
                     ELSE IF e = DotDot
                          THEN IF out # <<>> /\ out[Len(out)] # DotDot
                               THEN SubSeq(out, 1, Len(out) - 1)
                               ELSE IF rooted THEN out ELSE Append(out, e)
                          ELSE Append(out, e)
         IN  CleanElems(Tail(elems), next, rooted)

Clean(path) ==
    IF path = Empty THEN Dot
    ELSE LET rooted == path[1] = Separator
             body == JoinSep(CleanElems(Split(path, Separator), <<>>, rooted), Separator)
         IN  IF rooted THEN <<Separator>> \o body
             ELSE IF body = Empty THEN Dot ELSE body

FilepathDir(path) == Clean(SubSeq(path, 1, LastIndex(path, Separator)))

RECURSIVE StripTrailingSeparators(_)
StripTrailingSeparators(path) ==
    IF path # Empty /\ path[Len(path)] = Separator
    THEN StripTrailingSeparators(SubSeq(path, 1, Len(path) - 1))
    ELSE path

FilepathBase(path) ==
    IF path = Empty THEN Dot
    ELSE LET p == StripTrailingSeparators(path)
             q == SubSeq(p, LastIndex(p, Separator) + 1, Len(p))
         IN  IF q = Empty THEN <<Separator>> ELSE q

ToSlash(path) == [i \in 1..Len(path) |-> IF path[i] = Separator THEN "/" ELSE path[i]]

PathJoin(a, b) ==
    IF a = Empty /\ b = Empty THEN Empty
    ELSE IF a = Empty THEN Clean(b)
    ELSE Clean(a \o <<"/">> \o b)

(***************************************************************************)
(* The file names that may occur in the tree.  A tree is a set of full     *)
(* paths: tree.Files() yields each blob once, under its path from the root.*)
(***************************************************************************)
MAIN_GO == <<"m", "a", "i", "n", ".", "g", "o">>

SUB == <<"s", "u", "b">>

LIB_GO == <<"l", "i", "b", ".", "g", "o">>

FIXTURE_GO == <<"f", "i", "x", "t", "u", "r", "e", ".", "g", "o">>

HIDDEN_GO == <<"_", "h", "i", "d", "d", "e", "n", ".", "g", "o">>

A == <<"a">>

B == <<"b">>

B_GO == <<"b", ".", "g", "o">>

C_GO == <<"c", ".", "g", "o">>

X_GO == <<"x", ".", "g", "o">>

Y_GO == <<"y", ".", "g", "o">>

Z_GO == <<"z", ".", "g", "o">>

DOT_HIDDEN == <<".", "h", "i", "d", "d", "e", "n">>

GEN == <<"_", "g", "e", "n">>

README_MD == <<"R", "E", "A", "D", "M", "E", ".", "m", "d">>

TESTDATA_UPPER == <<"T", "e", "s", "t", "d", "a", "t", "a">>

UNDERSCORE_X_GO == <<"_", "x", ".", "g", "o">>

Path(elems) == JoinSep(elems, "/")

ExampleFiles ==
    { Path(<<MAIN_GO>>), Path(<<SUB, LIB_GO>>),
      Path(<<SUB, TESTDATA, FIXTURE_GO>>), Path(<<SUB, HIDDEN_GO>>) }

TreeFiles ==
    ExampleFiles \cup
    { Path(<<A, B_GO>>), Path(<<A, C_GO>>), Path(<<A, B, C_GO>>),
      Path(<<TESTDATA, X_GO>>), Path(<<TESTDATA, SUB, X_GO>>),
      Path(<<A, TESTDATA_UPPER, X_GO>>),
      Path(<<DOT_HIDDEN, Y_GO>>), Path(<<GEN, Z_GO>>),
      Path(<<A, DOT_HIDDEN, Y_GO>>), Path(<<A, GEN, Z_GO>>),
      Path(<<UNDERSCORE_X_GO>>), Path(<<README_MD>>) }

Trees(universe) == { S \in SUBSET universe : Cardinality(S) <= MaxFiles }

(***************************************************************************)
(* packageDirs.                                                            *)
(***************************************************************************)
\* The slip "strings.TrimSuffix(f.Name, ".go")" for the directory of a file.
dirOfTrimmedName(name) ==
    IF HasSuffix(name, DOT_GO) THEN SubSeq(name, 1, Len(name) - Len(DOT_GO)) ELSE name

\* d := filepath.Dir(f.Name)
dirOf(name) == FilepathDir(name)

\* The slip "filepath.Base(f.Name)": the test applied to the file, not to d.
inTestdataOfName(name) == FilepathBase(name) = TESTDATA

\* if filepath.Base(d) == "testdata" { continue }
inTestdata(name) == FilepathBase(dirOf(name)) = TESTDATA

\* if strings.HasPrefix(f.Name, ".") || strings.HasPrefix(f.Name, "_") ||
\*    !strings.HasSuffix(f.Name, ".go") { continue }
notGoFile(name) ==
    \/ HasPrefix(name, <<".">>)
    \/ HasPrefix(name, <<"_">>)
    \/ ~HasSuffix(name, DOT_GO)

\* The slip "delete(dirs, d)" where the code says "already accounted for".
packageDirsVisitDeleting(ds, name) ==
    IF inTestdata(name) THEN ds
    ELSE IF notGoFile(name) THEN ds
    ELSE IF dirOf(name) \in ds THEN ds \ {dirOf(name)}
    ELSE ds \cup {dirOf(name)}

\* One iteration of the loop for the file named "name": the map afterwards.
packageDirsVisit(ds, name) ==
    IF inTestdata(name) THEN ds
    ELSE IF notGoFile(name) THEN ds
    ELSE IF dirOf(name) \in ds THEN ds
    ELSE ds \cup {dirOf(name)}

NoResult == [state |-> "none", isNil |-> TRUE, dirs |-> {}]

NoFatal == [msg |-> "", path |-> Empty]

\* The slip of returning the map gathered so far together with the error.
packageDirsReturnKeepingDirs(e, ds) ==
    IF e = "EOF"
    THEN [state |-> "ok", isNil |-> FALSE, dirs |-> ds]
    ELSE [state |-> "err", isNil |-> FALSE, dirs |-> ds]

\* What packageDirs returns when iter.Next() reports the error e, the map
\* being ds: (dirs, nil) at io.EOF, (nil, err) otherwise.
packageDirsReturn(e, ds) ==
    IF e = "EOF"
    THEN [state |-> "ok", isNil |-> FALSE, dirs |-> ds]
    ELSE [state |-> "err", isNil |-> TRUE, dirs |-> {}]

\* dirs, err := packageDirs(tree); if err != nil { log.Fatalf(...) }
afterPackageDirs(r) == IF r.state = "err" THEN "fatal" ELSE "godocSpec"

fatalAfterPackageDirs(r) ==
    IF r.state = "err"
    THEN [msg |-> "determining go package directories", path |-> Empty]
    ELSE NoFatal

\* iter.Next() yields a file.
PackageDirsNext ==
    /\ pc = "packageDirs"
    /\ \E f \in iter :
          /\ iter' = iter \ {f}
          /\ dirs' = packageDirsVisit(dirs, f)
    /\ iterErr' = "nil"
    /\ UNCHANGED <<tree, result, pc, baseImportPrefix, repoURL, urlValid, urlHost,
                   branch, godoc, godocRedirect, defaultBranch, godocSpec, todo, d,
                   files, outVars, fatal>>

\* iter.Next() reports io.EOF: packageDirs returns (dirs, nil).
PackageDirsEOF ==
    /\ pc = "packageDirs"
    /\ iter = {}
    /\ iterErr' = "EOF"
    /\ result' = packageDirsReturn("EOF", dirs)
    /\ pc' = afterPackageDirs(result')
    /\ fatal' = fatalAfterPackageDirs(result')
    /\ UNCHANGED <<tree, iter, dirs, baseImportPrefix, repoURL, urlValid, urlHost,
                   branch, godoc, godocRedirect, defaultBranch, godocSpec, todo, d,
                   files, outVars>>

\* iter.Next() reports another error: packageDirs returns (nil, err) and main
\* ends in log.Fatalf.
PackageDirsError ==
    /\ pc = "packageDirs"
    /\ iterErr' = "read"
    /\ result' = packageDirsReturn("read", dirs)
    /\ pc' = afterPackageDirs(result')
    /\ fatal' = fatalAfterPackageDirs(result')
    /\ UNCHANGED <<tree, iter, dirs, baseImportPrefix, repoURL, urlValid, urlHost,
                   branch, godoc, godocRedirect, defaultBranch, godocSpec, todo, d,
                   files, outVars>>

(***************************************************************************)
(* net/url: Parse, as far as the Host of the result goes.                  *)
(***************************************************************************)
Letters ==
    { "a", "b", "c", "d", "e", "f", "g", "h", "i", "j", "k", "l", "m",
      "n", "o", "p", "q", "r", "s", "t", "u", "v", "w", "x", "y", "z",
      "A", "B", "C", "D", "E", "F", "G", "H", "I", "J", "K", "L", "M",
      "N", "O", "P", "Q", "R", "S", "T", "U", "V", "W", "X", "Y", "Z" }

Digits == { "0", "1", "2", "3", "4", "5", "6", "7", "8", "9" }

\* strings.Cut: the text before the first c (all of s when c is absent).
Before(s, c) == IF Index(s, c) = 0 THEN s ELSE SubSeq(s, 1, Index(s, c) - 1)

\* getScheme: where the scan of rawURL stops (0 when it reaches the end).
schemeStop(rawURL) ==
    LET stops(i) == ~(\/ rawURL[i] \in Letters
                      \/ (i > 1 /\ rawURL[i] \in Digits \cup {"+", "-", "."}))
    IN  IF \E i \in 1..Len(rawURL) : stops(i)
        THEN CHOOSE i \in 1..Len(rawURL) : stops(i) /\ \A j \in 1..(i - 1) : ~stops(j)
        ELSE 0

getScheme(rawURL) ==
    LET i == schemeStop(rawURL)
    IN  IF i # 0 /\ rawURL[i] = ":"
        THEN IF i = 1
             THEN [ok |-> FALSE, scheme |-> Empty, rest |-> Empty]
             ELSE [ok |-> TRUE, scheme |-> SubSeq(rawURL, 1, i - 1),
                   rest |-> SubSeq(rawURL, i + 1, Len(rawURL))]
        ELSE [ok |-> TRUE, scheme |-> Empty, rest |-> rawURL]

\* parseAuthority and parseHost: the host[:port] after the user information; a
\* port must be decimal digits.
parseAuthority(authority) ==
    LET host == SubSeq(authority, LastIndex(authority, "@") + 1, Len(authority))
        colon == LastIndex(host, ":")
    IN  IF colon # 0 /\ \E i \in (colon + 1)..Len(host) : host[i] \notin Digits
        THEN [ok |-> FALSE, Host |-> Empty]
        ELSE [ok |-> TRUE, Host |-> host]

urlParse(rawURL) ==
    LET s == getScheme(Before(rawURL, "#"))
        rest == Before(s.rest, "?")
    IN  IF ~s.ok THEN [ok |-> FALSE, Host |-> Empty]
        ELSE IF ~HasPrefix(rest, <<"/">>) /\ s.scheme # Empty
        THEN [ok |-> TRUE, Host |-> Empty]
        ELSE IF ~HasPrefix(rest, <<"/">>) /\ Index(Before(rest, "/"), ":") # 0
        THEN [ok |-> FALSE, Host |-> Empty]
        ELSE IF /\ HasPrefix(rest, <<"/", "/">>)
                /\ (s.scheme # Empty \/ ~HasPrefix(rest, <<"/", "/", "/">>))
        THEN parseAuthority(Before(SubSeq(rest, 3, Len(rest)), "/"))
        ELSE [ok |-> TRUE, Host |-> Empty]

(***************************************************************************)
(* determineGodocSpec and the GodocSpec variants.                          *)
(***************************************************************************)
\* The slip of using the ref name as it is reported.
shortBranchUntrimmed(long) == long

shortBranch(long) == TrimPrefix(long, REFS_HEADS)

NilSpec == [kind |-> "nil", repoURL |-> Empty, branch |-> Empty]

GitHub(url, b) == [kind |-> "GitHub", repoURL |-> url, branch |-> b]

BitBucket(url) == [kind |-> "BitBucket", repoURL |-> url, branch |-> Empty]

Default(url) == [kind |-> "Default", repoURL |-> url, branch |-> Empty]

\* The slip of choosing BitBucket by the host alone.
determineGodocSpecByHostAlone(url, requestedBranch, usedDefaultBranch, remoteDefaultBranch) ==
    LET u == urlParse(url)
    IN  IF u.ok /\ u.Host = GITHUB_COM
        THEN GitHub(url, IF usedDefaultBranch
                         THEN shortBranch(remoteDefaultBranch)
                         ELSE requestedBranch)
        ELSE IF u.ok /\ u.Host = BITBUCKET_ORG
        THEN BitBucket(url)
        ELSE Default(url)

\* The slip of matching the host by strings.HasPrefix instead of equality.
determineGodocSpecByHostPrefix(url, requestedBranch, usedDefaultBranch, remoteDefaultBranch) ==
    LET u == urlParse(url)
    IN  IF u.ok /\ HasPrefix(u.Host, GITHUB_COM)
        THEN GitHub(url, IF usedDefaultBranch
                         THEN shortBranch(remoteDefaultBranch)
                         ELSE requestedBranch)
        ELSE IF /\ u.ok /\ HasPrefix(u.Host, BITBUCKET_ORG)
                /\ (usedDefaultBranch \/ shortBranch(remoteDefaultBranch) = requestedBranch)
        THEN BitBucket(url)
        ELSE Default(url)

\* remoteDefaultBranch is repo.Remotes[git.DefaultRemoteName].DefaultBranch().
determineGodocSpec(url, requestedBranch, usedDefaultBranch, remoteDefaultBranch) ==
    LET u == urlParse(url)
    IN  IF u.ok /\ u.Host = GITHUB_COM
        THEN GitHub(url, IF usedDefaultBranch
                         THEN shortBranch(remoteDefaultBranch)
                         ELSE requestedBranch)
        ELSE IF /\ u.ok /\ u.Host = BITBUCKET_ORG
                /\ (usedDefaultBranch \/ shortBranch(remoteDefaultBranch) = requestedBranch)
        THEN BitBucket(url)
        ELSE Default(url)

home(g) ==
    CASE g.kind = "GitHub" -> HOME_NONE
      [] g.kind = "BitBucket" -> HOME_NONE
      [] g.kind = "Default" -> g.repoURL

directory(g) ==
    CASE g.kind = "GitHub" -> g.repoURL \o GH_TREE \o g.branch \o DIR_TMPL
      [] g.kind = "BitBucket" -> g.repoURL \o BB_SRC \o DIR_TMPL
      [] g.kind = "Default" -> g.repoURL

file(g) ==
    CASE g.kind = "GitHub" -> g.repoURL \o GH_TREE \o g.branch \o GH_FILE_TMPL
      [] g.kind = "BitBucket" -> g.repoURL \o BB_SRC \o BB_FILE_TMPL
      [] g.kind = "Default" -> g.repoURL

(***************************************************************************)
(* main, from the call of packageDirs on.  What precedes it (the flags, the *)
(* arguments, the pull of the branch) fixes the values the specifications  *)
(* start from.  The write phase works on a file system that holds nothing  *)
(* under the output directory when main starts.                            *)
(***************************************************************************)
useDefaultBranch == branch = Empty

\* var godocSpec GodocSpec; if *godoc { godocSpec = determineGodocSpec(...) }
DetermineGodocSpec ==
    /\ pc = "godocSpec"
    /\ godocSpec' = IF godoc
                    THEN determineGodocSpec(repoURL, branch, useDefaultBranch, defaultBranch)
                    ELSE NilSpec
    /\ todo' = result.dirs
    /\ pc' = "render"
    /\ UNCHANGED <<tree, iter, dirs, result, baseImportPrefix, repoURL, urlValid,
                   urlHost, branch, godoc, godocRedirect, defaultBranch, d, files,
                   iterErr, outVars, fatal>>

\* if d == "." { d = "" }
rootAsEmpty(x) == IF x = Dot THEN Empty ELSE x

forwardSlashed(x) == ToSlash(rootAsEmpty(x))

\* The slip of concatenating with "/" instead of path.Join.
fullImportPrefixConcatenated(base, x) == base \o <<"/">> \o forwardSlashed(x)

fullImportPrefix(base, x) == PathJoin(base, forwardSlashed(x))

NilGoSource == [isNil |-> TRUE, Prefix |-> Empty, Home |-> Empty,
                Directory |-> Empty, File |-> Empty]

\* The slip the comment at the GoImport literal warns of: the import prefix of
\* the directory in place of the one of the repository root.
TemplateArgsWithUnitPrefix(x) ==
    [ GoImport |-> [ImportPrefix |-> fullImportPrefix(baseImportPrefix, x),
                    VCS |-> GIT, RepoRoot |-> repoURL],
      GodocURL |-> GODOC_ORG \o fullImportPrefix(baseImportPrefix, x),
      GodocRedirect |-> godocRedirect,
      GoSource |-> IF godoc
                   THEN [isNil |-> FALSE, Prefix |-> baseImportPrefix,
                         Home |-> home(godocSpec), Directory |-> directory(godocSpec),
                         File |-> file(godocSpec)]
                   ELSE NilGoSource ]

\* The TemplateArgs of the directory x; the document is the template applied to it.
TemplateArgs(x) ==
    [ GoImport |-> [ImportPrefix |-> baseImportPrefix, VCS |-> GIT, RepoRoot |-> repoURL],
      GodocURL |-> GODOC_ORG \o fullImportPrefix(baseImportPrefix, x),
      GodocRedirect |-> godocRedirect,
      GoSource |-> IF godoc
                   THEN [isNil |-> FALSE, Prefix |-> baseImportPrefix,
                         Home |-> home(godocSpec), Directory |-> directory(godocSpec),
                         File |-> file(godocSpec)]
                   ELSE NilGoSource ]

\* One iteration of "for d := range dirs": Go visits the keys in any order.
Render ==
    /\ pc = "render"
    /\ \E x \in todo :
          /\ todo' = todo \ {x}
          /\ d' = rootAsEmpty(x)
          /\ files' = Append(files, [path |-> fullImportPrefix(baseImportPrefix, x),
                                     contents |-> TemplateArgs(x)])
    /\ UNCHANGED <<tree, iter, dirs, result, pc, baseImportPrefix, repoURL, urlValid,
                   urlHost, branch, godoc, godocRedirect, defaultBranch, godocSpec,
                   iterErr, outVars, fatal>>

\* htmlTmpl.Execute fails for the directory the loop is at: log.Fatalf.
RenderError ==
    /\ pc = "render"
    /\ \E x \in todo :
          /\ todo' = todo \ {x}
          /\ d' = rootAsEmpty(x)
          /\ fatal' = [msg |-> "executing template for path",
                       path |-> fullImportPrefix(baseImportPrefix, x)]
    /\ pc' = "fatal"
    /\ UNCHANGED <<tree, iter, dirs, result, baseImportPrefix, repoURL, urlValid,
                   urlHost, branch, godoc, godocRedirect, defaultBranch, godocSpec,
                   files, iterErr, outVars>>

\* The range loop is over.
RenderEnd ==
    /\ pc = "render"
    /\ todo = {}
    /\ pc' = "mkdirOutput"
    /\ UNCHANGED <<tree, iter, dirs, result, baseImportPrefix, repoURL, urlValid,
                   urlHost, branch, godoc, godocRedirect, defaultBranch, godocSpec,
                   todo, d, files, iterErr, outVars, fatal>>

(***************************************************************************)
(* main: the output directory and the write loop.  os.MkdirAll and         *)
(* ioutil.WriteFile act on fsDirs and fsFiles.                             *)
(***************************************************************************)
HTML == <<"h", "t", "m", "l">>

INDEX_HTML == <<"i", "n", "d", "e", "x", ".", "h", "t", "m", "l">>

FromSlash(path) == [i \in 1..Len(path) |-> IF path[i] = "/" THEN Separator ELSE path[i]]

FilepathJoin(a, b) ==
    IF a = Empty /\ b = Empty THEN Empty
    ELSE IF a = Empty THEN Clean(b)
    ELSE Clean(a \o <<Separator>> \o b)

\* dir := filepath.Join(*outputDir, filepath.FromSlash(file.path))
outDir(out, path) == FilepathJoin(out, FromSlash(path))

\* The slip of writing the document beside the directory, as <dir>.html.
outFileBesideDir(dir) == dir \o <<".">> \o HTML

\* f := filepath.Join(dir, "index.html")
outFile(dir) == FilepathJoin(dir, INDEX_HTML)

\* The path and the directories above it.
Ancestors(path) ==
    LET e == Split(path, Separator)
    IN  { JoinSep(SubSeq(e, 1, k), Separator) : k \in 1..Len(e) }

\* os.MkdirAll fails with ENOTDIR when the path or a directory above it is a
\* regular file; otherwise the path and what is missing above it are made.
mkdirAllFails(fFiles, path) == \E r \in fFiles : r.path \in Ancestors(path)

mkdirAll(fDirs, path) == fDirs \cup Ancestors(path)

\* ioutil.WriteFile fails with EISDIR when the name is a directory; otherwise
\* the file is created or truncated and holds the data.
writeFileFails(fDirs, f) == f \in fDirs

writeFile(fFiles, f, data) ==
    { r \in fFiles : r.path # f } \cup { [path |-> f, data |-> data] }

\* file.contents.Bytes(): the template applied to args, whole or cut short.
Document(args) == [complete |-> TRUE, args |-> args]

CutShort(args) == [complete |-> FALSE, args |-> args]

\* if *outputDir == "" { *outputDir = "html" }
outputDirOrDefault == IF outputDir = Empty THEN HTML ELSE outputDir

\* os.MkdirAll(*outputDir, permDir)
MkdirOutput ==
    /\ pc = "mkdirOutput"
    /\ outputDir' = outputDirOrDefault
    /\ IF mkdirAllFails(fsFiles, outputDirOrDefault)
       THEN /\ fatal' = [msg |-> "making directory", path |-> outputDirOrDefault]
            /\ pc' = "fatal"
            /\ UNCHANGED <<fsDirs, fileIndex>>
       ELSE /\ fsDirs' = mkdirAll(fsDirs, outputDirOrDefault)
            /\ fileIndex' = 1
            /\ pc' = "write"
            /\ UNCHANGED fatal
    /\ UNCHANGED <<tree, iter, dirs, result, baseImportPrefix, repoURL, urlValid,
                   urlHost, branch, godoc, godocRedirect, defaultBranch, godocSpec,
                   todo, d, files, iterErr, fsFiles>>

\* os.MkdirAll(*outputDir, permDir) fails for a reason of the system (access,
\* space, I/O): log.Fatalf.
MkdirOutputError ==
    /\ pc = "mkdirOutput"
    /\ outputDir' = outputDirOrDefault
    /\ fatal' = [msg |-> "making directory", path |-> outputDirOrDefault]
    /\ pc' = "fatal"
    /\ UNCHANGED <<tree, iter, dirs, result, baseImportPrefix, repoURL, urlValid,
                   urlHost, branch, godoc, godocRedirect, defaultBranch, godocSpec,
                   todo, d, files, iterErr, fsDirs, fsFiles, fileIndex>>

\* The slip of logging a failed iteration and going on to the next file.
WriteLoggingOnly ==
    /\ pc = "write"
    /\ fileIndex <= Len(files)
    /\ LET entry == files[fileIndex]
           dir == outDir(outputDir, entry.path)
           f == outFile(dir)
       IN  IF mkdirAllFails(fsFiles, dir)
           THEN UNCHANGED <<fsDirs, fsFiles>>
           ELSE IF writeFileFails(mkdirAll(fsDirs, dir), f)
           THEN /\ fsDirs' = mkdirAll(fsDirs, dir)
                /\ UNCHANGED fsFiles
           ELSE /\ fsDirs' = mkdirAll(fsDirs, dir)
                /\ fsFiles' = writeFile(fsFiles, f, Document(entry.contents))
    /\ fileIndex' = fileIndex + 1
    /\ UNCHANGED <<tree, iter, dirs, result, baseImportPrefix, repoURL, urlValid,
                   urlHost, branch, godoc, godocRedirect, defaultBranch, godocSpec,
                   todo, d, files, iterErr, outputDir, pc, fatal>>

\* One iteration of "for _, file := range files".
Write ==
    /\ pc = "write"
    /\ fileIndex <= Len(files)
    /\ LET entry == files[fileIndex]
           dir == outDir(outputDir, entry.path)
           f == outFile(dir)
       IN  IF mkdirAllFails(fsFiles, dir)
           THEN /\ fatal' = [msg |-> "making directory", path |-> dir]
                /\ pc' = "fatal"
                /\ UNCHANGED <<fsDirs, fsFiles, fileIndex>>
           ELSE IF writeFileFails(mkdirAll(fsDirs, dir), f)
           THEN /\ fsDirs' = mkdirAll(fsDirs, dir)
                /\ fatal' = [msg |-> "writing file", path |-> f]
                /\ pc' = "fatal"
                /\ UNCHANGED <<fsFiles, fileIndex>>
           ELSE /\ fsDirs' = mkdirAll(fsDirs, dir)
                /\ fsFiles' = writeFile(fsFiles, f, Document(entry.contents))
                /\ fileIndex' = fileIndex + 1
                /\ UNCHANGED <<pc, fatal>>
    /\ UNCHANGED <<tree, iter, dirs, result, baseImportPrefix, repoURL, urlValid,
                   urlHost, branch, godoc, godocRedirect, defaultBranch, godocSpec,
                   todo, d, files, iterErr, outputDir>>

\* The iteration fails for a reason of the system: os.MkdirAll, having made
\* none or some of the directories, or ioutil.WriteFile, leaving no file or one
\* cut short.  log.Fatalf.
WriteError ==
    /\ pc = "write"
    /\ fileIndex <= Len(files)
    /\ LET entry == files[fileIndex]
           dir == outDir(outputDir, entry.path)
           f == outFile(dir)
       IN  /\ ~mkdirAllFails(fsFiles, dir)
           /\ \/ /\ \E p \in Ancestors(dir) :
                       fsDirs' = fsDirs \cup (Ancestors(p) \ {p})
                 /\ fatal' = [msg |-> "making directory", path |-> dir]
                 /\ UNCHANGED fsFiles
              \/ /\ ~writeFileFails(mkdirAll(fsDirs, dir), f)
                 /\ fsDirs' = mkdirAll(fsDirs, dir)
                 /\ fsFiles' \in {fsFiles, writeFile(fsFiles, f, CutShort(entry.contents))}
                 /\ fatal' = [msg |-> "writing file", path |-> f]
    /\ pc' = "fatal"
    /\ UNCHANGED <<tree, iter, dirs, result, baseImportPrefix, repoURL, urlValid,
                   urlHost, branch, godoc, godocRedirect, defaultBranch, godocSpec,
                   todo, d, files, iterErr, outputDir, fileIndex>>

\* The write loop is over: main returns.
WriteEnd ==
    /\ pc = "write"
    /\ fileIndex > Len(files)
    /\ pc' = "done"
    /\ UNCHANGED <<tree, iter, dirs, result, baseImportPrefix, repoURL, urlValid,
                   urlHost, branch, godoc, godocRedirect, defaultBranch, godocSpec,
                   todo, d, files, iterErr, outVars, fatal>>

(***************************************************************************)
(* The command lines and remotes considered.                               *)
(***************************************************************************)
E_ORG_R == <<"e", ".", "o", "r", "g", "/", "r">>

HTTPS == <<"h", "t", "t", "p", "s", ":">>

U_R == <<"/", "u", "/", "r">>

CODE_ORG == <<"c", "o", "d", "e", ".", "o", "r", "g">>

GITHUB_UPPER == <<"G", "i", "t", "H", "u", "b", ".", "c", "o", "m">>

PORT == <<":", "4", "4", "3">>

USER == <<"g", "i", "t", "@">>

MASTER == <<"m", "a", "s", "t", "e", "r">>

DEV == <<"d", "e", "v">>

SCP == <<"g", "i", "t", "@", "g", "i", "t", "h", "u", "b", ".", "c", "o", "m", ":", "u", "/", "r">>

BARE == <<"g", "i", "t", "h", "u", "b", ".", "c", "o", "m", "/", "u", "/", "r">>

\* A repository URL with the parts it was written from: "valid" says whether the
\* text is a well-formed URL, "host" is its host[:port] part.
RepoURLs ==
    { [str |-> sch \o <<"/", "/">> \o usr \o h \o prt \o U_R,
       valid |-> sch # <<":">>,
       host |-> h \o prt] :
         sch \in {HTTPS, Empty, <<":">>}, usr \in {Empty, USER},
         h \in {GITHUB_COM, BITBUCKET_ORG, CODE_ORG, GITHUB_UPPER},
         prt \in {Empty, PORT} }
    \cup { [str |-> Empty, valid |-> TRUE, host |-> Empty],
           [str |-> BARE, valid |-> TRUE, host |-> Empty],
           [str |-> SCP, valid |-> FALSE, host |-> GITHUB_COM] }

BranchNames == {MASTER, DEV}

\* Without -branch, PullDefault has pulled the branch the remote names as its
\* default, a ref under refs/heads/.  With -branch the remote may report none.
BranchInputs ==
    { [branch |-> Empty, defaultBranch |-> REFS_HEADS \o n] : n \in BranchNames }
    \cup { [branch |-> b, defaultBranch |-> dflt] :
             b \in BranchNames,
             dflt \in {Empty} \cup { REFS_HEADS \o n : n \in BranchNames } }

GitHubURL == HTTPS \o <<"/", "/">> \o GITHUB_COM \o U_R

CodeOrgURL == HTTPS \o <<"/", "/">> \o CODE_ORG \o U_R

\* The command lines of the whole-program specification.
MainConfigs ==
    { [godoc |-> FALSE, redirect |-> TRUE, base |-> E_ORG_R, out |-> Empty,
       url |-> [str |-> GitHubURL, valid |-> TRUE, host |-> GITHUB_COM],
       branch |-> Empty, defaultBranch |-> REFS_HEADS \o MASTER],
      [godoc |-> TRUE, redirect |-> TRUE, base |-> E_ORG_R \o <<"/">>, out |-> <<"o">>,
       url |-> [str |-> GitHubURL, valid |-> TRUE, host |-> GITHUB_COM],
       branch |-> DEV, defaultBranch |-> REFS_HEADS \o MASTER],
      [godoc |-> TRUE, redirect |-> FALSE, base |-> E_ORG_R, out |-> Empty,
       url |-> [str |-> CodeOrgURL, valid |-> TRUE, host |-> CODE_ORG],
       branch |-> Empty, defaultBranch |-> REFS_HEADS \o MASTER] }

MainTreeFiles ==
    ExampleFiles \cup
    { Path(<<A, B_GO>>), Path(<<A, DOT_HIDDEN, Y_GO>>), Path(<<GEN, Z_GO>>),
      Path(<<README_MD>>) }

\* Trees for the write phase: some have a directory named index.html beside
\* the Go files of its parent.
OutputTreeFiles ==
    { Path(<<MAIN_GO>>), Path(<<SUB, LIB_GO>>), Path(<<A, B_GO>>),
      Path(<<A, INDEX_HTML, B_GO>>), Path(<<INDEX_HTML, C_GO>>) }

(***************************************************************************)
(* Specifications.                                                         *)
(***************************************************************************)
\* main at the call packageDirs(tree), for the command line c.
AtPackageDirs(t, c) ==
    /\ tree = t
    /\ iter = t
    /\ dirs = {}
    /\ result = NoResult
    /\ pc = "packageDirs"
    /\ baseImportPrefix = c.base
    /\ repoURL = c.url.str
    /\ urlValid = c.url.valid
    /\ urlHost = c.url.host
    /\ branch = c.branch
    /\ godoc = c.godoc
    /\ godocRedirect = c.redirect
    /\ defaultBranch = c.defaultBranch
    /\ godocSpec = NilSpec
    /\ todo = {}
    /\ d = Empty
    /\ files = <<>>
    /\ iterErr = "nil"
    /\ outputDir = c.out
    /\ fsDirs = {}
    /\ fsFiles = {}
    /\ fileIndex = 0
    /\ fatal = NoFatal

\* The whole program.
Init == \E t \in Trees(MainTreeFiles), c \in MainConfigs : AtPackageDirs(t, c)

Next ==
    \/ PackageDirsNext
    \/ PackageDirsEOF
    \/ PackageDirsError
    \/ DetermineGodocSpec
    \/ Render
    \/ RenderError
    \/ RenderEnd
    \/ MkdirOutput
    \/ MkdirOutputError
    \/ Write
    \/ WriteError
    \/ WriteEnd

Spec == Init /\ [][Next]_vars

\* The whole program on the trees for the write phase.
InitOutput == \E t \in Trees(OutputTreeFiles), c \in MainConfigs : AtPackageDirs(t, c)

SpecOutput == InitOutput /\ [][Next]_vars

\* packageDirs alone, on every tree of at most MaxFiles files.
InitPackageDirs ==
    \E t \in Trees(TreeFiles) :
        AtPackageDirs(t, [godoc |-> FALSE, redirect |-> TRUE, base |-> E_ORG_R,
                          out |-> Empty,
                          url |-> [str |-> GitHubURL, valid |-> TRUE, host |-> GITHUB_COM],
                          branch |-> Empty, defaultBranch |-> REFS_HEADS \o MASTER])

NextPackageDirs ==
    \/ PackageDirsNext
    \/ PackageDirsEOF
    \/ PackageDirsError

SpecPackageDirs == InitPackageDirs /\ [][NextPackageDirs]_vars

\* determineGodocSpec alone, with -godoc, on every repository URL and branch:
\* main after packageDirs has returned for a tree without Go files.
InitGodocSpec ==
    \E u \in RepoURLs, b \in BranchInputs :
        /\ tree = {}
        /\ iter = {}
        /\ dirs = {}
        /\ result = [state |-> "ok", isNil |-> FALSE, dirs |-> {}]
        /\ pc = "godocSpec"
        /\ baseImportPrefix = E_ORG_R
        /\ repoURL = u.str
        /\ urlValid = u.valid
        /\ urlHost = u.host
        /\ branch = b.branch
        /\ godoc = TRUE
        /\ godocRedirect = TRUE
        /\ defaultBranch = b.defaultBranch
        /\ godocSpec = NilSpec
        /\ todo = {}
        /\ d = Empty
        /\ files = <<>>
        /\ iterErr = "EOF"
        /\ outputDir = Empty
        /\ fsDirs = {}
        /\ fsFiles = {}
        /\ fileIndex = 0
        /\ fatal = NoFatal

NextGodocSpec == DetermineGodocSpec

SpecGodocSpec == InitGodocSpec /\ [][NextGodocSpec]_vars

(***************************************************************************)
(* The vocabulary of the properties: a path read element by element.       *)
(***************************************************************************)
Elems(path) == Split(path, "/")

LastElem(path) == Elems(path)[Len(Elems(path))]

\* Everything before the last separator; the empty string for the root.
DirPortion(path) == JoinSep(SubSeq(Elems(path), 1, Len(Elems(path)) - 1), "/")

BeginsDotOrUnderscore(name) == name # Empty /\ name[1] \in {".", "_"}

\* The extension: the suffix of the name from its last dot on.
Extension(name) ==
    IF LastIndex(name, ".") = 0 THEN Empty
    ELSE SubSeq(name, LastIndex(name, "."), Len(name))

\* The inclusion predicate on a file record.
SatisfiesInclusion(path) ==
    /\ ~BeginsDotOrUnderscore(LastElem(path))
    /\ Extension(LastElem(path)) = DOT_GO
    /\ (DirPortion(path) = Empty \/ LastElem(DirPortion(path)) # TESTDATA)

\* The directory x, as packageDirs names it ("." for the root), holds the file.
DirectlyContains(x, path) == DirPortion(path) = (IF x = Dot THEN Empty ELSE x)

Returned == result.state = "ok"

WithoutTrailingSlash(s) ==
    IF s # Empty /\ s[Len(s)] = "/" THEN SubSeq(s, 1, Len(s) - 1) ELSE s

\* C1: every directory packageDirs returns directly contains a file that
\* satisfies the inclusion predicate (name not beginning with '.' or '_',
\* extension '.go', directory not named 'testdata').
C1_EveryDirContainsIncludedFile ==
    Returned =>
        \A x \in result.dirs :
            \E f \in tree : SatisfiesInclusion(f) /\ DirectlyContains(x, f)

\* C2: packageDirs followed by main's root normalization gives exactly the
\* directory portions of the records passing both exclusion rules; the example
\* tree {main.go, sub/lib.go, sub/testdata/fixture.go, sub/_hidden.go} gives
\* exactly {"", "sub"}.
C2_UnitsAreExactlyIncludedDirs ==
    Returned =>
        /\ { rootAsEmpty(x) : x \in result.dirs }
              = { DirPortion(f) : f \in { g \in tree : SatisfiesInclusion(g) } }
        /\ (tree = ExampleFiles => { rootAsEmpty(x) : x \in result.dirs } = {Empty, SUB})

\* C3: no directory in the map, during the pass or as returned, has 'testdata'
\* as its last path element.
C3_NoTestdataDir ==
    \A x \in dirs \cup result.dirs : LastElem(x) # TESTDATA

C3_Witness ==
    /\ Returned
    /\ Path(<<TESTDATA, X_GO>>) \in tree
    /\ Path(<<SUB, TESTDATA, FIXTURE_GO>>) \in tree
    /\ Path(<<SUB, LIB_GO>>) \in tree
    /\ result.dirs = {SUB}

\* C4: no directory packageDirs returns has a name (last path element)
\* beginning with '.' or '_', wherever it sits in the tree.
C4_NoHiddenDirReturned ==
    Returned =>
        \A x \in result.dirs : x # Dot => ~BeginsDotOrUnderscore(LastElem(x))

\* C5, as claimed: the tree holding only a/b.go yields the unit a/b and not a.
C5_FileYieldsUnitNamedAfterIt ==
    (Returned /\ tree = {Path(<<A, B_GO>>)}) =>
        (Path(<<A, B>>) \in result.dirs /\ A \notin result.dirs)

\* C5, amended: the tree holding only a/b.go yields the unit a, the directory
\* portion of the file, and not a/b.
C5_FileYieldsItsDirectory ==
    (Returned /\ tree = {Path(<<A, B_GO>>)}) =>
        (A \in result.dirs /\ Path(<<A, B>>) \notin result.dirs)

C5_Witness == Returned /\ tree = {Path(<<A, B_GO>>)} /\ result.dirs = {A}

\* C6: a qualifying file in the root yields the root as a unit, the empty path
\* after main's normalization, and the root's output path and godoc URL are the
\* import prefix itself, without a trailing separator or a '.' element.
RootHasIncludedFile == \E f \in tree : SatisfiesInclusion(f) /\ DirPortion(f) = Empty

C6_RootUnit ==
    /\ (Returned /\ RootHasIncludedFile) =>
           Empty \in { rootAsEmpty(x) : x \in result.dirs }
    /\ (pc = "mkdirOutput" /\ RootHasIncludedFile) =>
           \E i \in 1..Len(files) : files[i].path = WithoutTrailingSlash(baseImportPrefix)
    /\ (files # <<>> /\ d = Empty /\ fatal.msg # "executing template for path") =>
           LET f == files[Len(files)]
           IN  /\ f.path = WithoutTrailingSlash(baseImportPrefix)
               /\ f.path[Len(f.path)] # "/"
               /\ LastElem(f.path) # Dot
               /\ f.contents.GodocURL = GODOC_ORG \o WithoutTrailingSlash(baseImportPrefix)

C6_Witness ==
    /\ pc = "render"
    /\ Path(<<MAIN_GO>>) \in tree
    /\ files # <<>>
    /\ d = Empty
    /\ baseImportPrefix = E_ORG_R \o <<"/">>
    /\ files[Len(files)].path = E_ORG_R

\* The map after one pass over the files of S in an order fixed by S alone.
RECURSIVE PassInFixedOrder(_, _)
PassInFixedOrder(S, ds) ==
    IF S = {} THEN ds
    ELSE LET f == CHOOSE x \in S : TRUE
         IN  PassInFixedOrder(S \ {f}, packageDirsVisit(ds, f))

\* C7: whatever the order in which the iterator yields the files, the map is
\* the one a pass in a fixed order over the same files gives, and during the
\* pass no directory leaves the map.
C7_OrderIndependentAndMonotone ==
    /\ [](pc = "packageDirs" => dirs = PassInFixedOrder(tree \ iter, {}))
    /\ [](Returned => result.dirs = PassInFixedOrder(tree, {}))
    /\ [][pc = "packageDirs" => dirs \subseteq dirs']_vars

C7_Witness ==
    /\ Returned
    /\ {Path(<<A, B_GO>>), Path(<<A, C_GO>>), Path(<<MAIN_GO>>), Path(<<README_MD>>)} = tree
    /\ result.dirs = {A, Dot}

\* main holds the GodocSpec that determineGodocSpec returned.
GodocSpecChosen == godoc /\ pc \in {"render", "mkdirOutput"}

\* The branch the remote's default ref names: defaultBranch without "refs/heads/".
DefaultBranchName == CHOOSE n \in BranchNames : REFS_HEADS \o n = defaultBranch

\* C8: for a URL whose host is github.com the GitHub variant is returned, and
\* the branch in its directory() and file() templates is the requested branch,
\* or without -branch the remote's default branch without "refs/heads/", which
\* is neither empty nor a refs/heads/ name.
C8_GitHubBranch ==
    (GodocSpecChosen /\ urlValid /\ urlHost = GITHUB_COM) =>
        LET b == IF branch # Empty THEN branch ELSE DefaultBranchName
        IN  /\ godocSpec.kind = "GitHub"
            /\ directory(godocSpec) = repoURL \o GH_TREE \o b \o DIR_TMPL
            /\ file(godocSpec) = repoURL \o GH_TREE \o b \o GH_FILE_TMPL
            /\ branch = Empty =>
                  /\ godocSpec.branch # Empty
                  /\ ~HasPrefix(godocSpec.branch, REFS_HEADS)
                  /\ REFS_HEADS \o godocSpec.branch = defaultBranch

C8_Witness ==
    /\ GodocSpecChosen
    /\ urlValid
    /\ urlHost = GITHUB_COM
    /\ branch = Empty
    /\ defaultBranch = REFS_HEADS \o DEV
    /\ godocSpec.kind = "GitHub"
    /\ godocSpec.branch = DEV

\* C9: for a URL whose host is bitbucket.org the BitBucket variant is returned
\* exactly when the default branch was used or the requested branch is the
\* remote's default branch without "refs/heads/"; otherwise the Default variant
\* is returned, whose directory() is the repository URL.
C9_BitBucketOnlyForDefaultBranch ==
    (GodocSpecChosen /\ urlValid /\ urlHost = BITBUCKET_ORG) =>
        /\ godocSpec.kind = "BitBucket"
              <=> (branch = Empty \/ REFS_HEADS \o branch = defaultBranch)
        /\ godocSpec.kind # "BitBucket" =>
              (godocSpec.kind = "Default" /\ directory(godocSpec) = repoURL)
        /\ godocSpec.kind = "BitBucket" =>
              directory(godocSpec) = repoURL \o BB_SRC \o DIR_TMPL

C9_Witness ==
    /\ GodocSpecChosen
    /\ urlValid
    /\ urlHost = BITBUCKET_ORG
    /\ branch = DEV
    /\ defaultBranch = REFS_HEADS \o MASTER
    /\ godocSpec.kind = "Default"

\* C10: determineGodocSpec always returns a strategy; for a URL that cannot be
\* parsed or whose host is neither github.com nor bitbucket.org it is the
\* Default variant, whose home(), directory() and file() are the repository URL.
C10_DefaultFallback ==
    GodocSpecChosen =>
        /\ godocSpec.kind \in {"GitHub", "BitBucket", "Default"}
        /\ (~urlValid \/ urlHost \notin {GITHUB_COM, BITBUCKET_ORG}) =>
              /\ godocSpec.kind = "Default"
              /\ home(godocSpec) = repoURL
              /\ directory(godocSpec) = repoURL
              /\ file(godocSpec) = repoURL

C10_Witness ==
    /\ GodocSpecChosen
    /\ ~urlValid
    /\ repoURL = SCP
    /\ godocSpec.kind = "Default"

\* The units main's range loop has visited: the returned directories, the
\* root written as the empty path, without those still to come.
VisitedUnits == { (IF x = Dot THEN Empty ELSE x) : x \in result.dirs \ todo }

\* The root import prefix joined with the relative path u of a unit.
PrefixJoinedWith(u) ==
    WithoutTrailingSlash(baseImportPrefix) \o (IF u = Empty THEN Empty ELSE <<"/">> \o u)

\* C11: every document carries the import prefix of the repository root (the
\* same for all units), the VCS 'git' and the repository URL, and its godoc URL
\* is 'https://godoc.org/' followed by the root prefix joined with the unit's
\* relative path.
C11_RootPrefixAndUnitGodocURL ==
    pc \in {"render", "mkdirOutput", "write", "done"} =>
        /\ \A i \in 1..Len(files) :
              /\ files[i].contents.GoImport.ImportPrefix = baseImportPrefix
              /\ files[i].contents.GoImport.VCS = GIT
              /\ files[i].contents.GoImport.RepoRoot = repoURL
        /\ { files[i].contents.GodocURL : i \in 1..Len(files) }
              = { GODOC_ORG \o PrefixJoinedWith(u) : u \in VisitedUnits }
        /\ Len(files) = Cardinality(VisitedUnits)
        /\ files # <<>> =>
              files[Len(files)].contents.GodocURL = GODOC_ORG \o PrefixJoinedWith(d)

C11_Witness ==
    /\ pc = "mkdirOutput"
    /\ Len(files) = 3
    /\ VisitedUnits = {Empty, SUB, Path(<<A, DOT_HIDDEN>>)}
    /\ \E i \in 1..3 :
          /\ files[i].path = E_ORG_R \o <<"/">> \o Path(<<A, DOT_HIDDEN>>)
          /\ files[i].contents.GoImport.ImportPrefix = E_ORG_R
          /\ files[i].contents.GodocURL
                = GODOC_ORG \o E_ORG_R \o <<"/">> \o Path(<<A, DOT_HIDDEN>>)

\* Where main writes the document of the unit with the output path p.
DocumentPath(p) == outFile(outDir(outputDir, p))

\* The document of files[i] is on disk, whole.
Written(i) ==
    \E r \in fsFiles :
        r.path = DocumentPath(files[i].path) /\ r.data = Document(files[i].contents)

\* C12: a failure to render or to write one unit's document ends the run there:
\* the error names the path at hand, the units before it in the write loop are
\* written and no later one is, nothing is rendered or written after the
\* failure, and a run that ends without an error has written every unit.
C12_FailureIsFatal ==
    /\ [](/\ (pc = "fatal") <=> (fatal # NoFatal)
          /\ pc = "done" =>
                \A x \in result.dirs :
                    \E r \in fsFiles :
                        /\ r.path = DocumentPath(fullImportPrefix(baseImportPrefix, x))
                        /\ r.data = Document(TemplateArgs(x))
          /\ fatal.msg = "executing template for path" =>
                /\ fatal.path = PrefixJoinedWith(d)
                /\ \A i \in 1..Len(files) : files[i].path # fatal.path
                /\ fsFiles = {} /\ fsDirs = {}
          /\ (fatal.msg \in {"making directory", "writing file"} /\ fileIndex = 0) =>
                /\ fatal.msg = "making directory"
                /\ fatal.path = outputDir
                /\ fsFiles = {}
          /\ (fatal.msg \in {"making directory", "writing file"} /\ fileIndex > 0) =>
                /\ fileIndex <= Len(files)
                /\ fatal.path = IF fatal.msg = "making directory"
                                THEN outDir(outputDir, files[fileIndex].path)
                                ELSE DocumentPath(files[fileIndex].path)
                /\ \A i \in 1..(fileIndex - 1) : Written(i)
                /\ ~Written(fileIndex)
                /\ \A j \in (fileIndex + 1)..Len(files) :
                      \A r \in fsFiles : r.path # DocumentPath(files[j].path))
    /\ [][pc = "fatal" => UNCHANGED <<pc, files, fsDirs, fsFiles, fileIndex>>]_vars

C12_Witness ==
    /\ pc = "fatal"
    /\ fatal.msg = "writing file"
    /\ Len(files) = 3
    /\ fileIndex = 2
    /\ fatal.path = DocumentPath(files[2].path)
    /\ Written(1)
    /\ \E r \in fsFiles : r.path = fatal.path /\ ~r.data.complete

\* C13: packageDirs returns an error exactly when iter.Next reported an error
\* other than io.EOF; at io.EOF it returns the map gathered, and at a read error
\* it returns no map, whatever was gathered, and main stops before a document
\* is rendered or a directory or file is made.
C13_OnlyReadFailureFails ==
    /\ (result.state = "err") <=> (iterErr = "read")
    /\ iterErr = "EOF" =>
          /\ result.state = "ok"
          /\ ~result.isNil
          /\ result.dirs = dirs
          /\ pc # "fatal" => fatal = NoFatal
    /\ iterErr = "read" =>
          /\ result.isNil
          /\ result.dirs = {}
          /\ pc = "fatal"
          /\ fatal.msg = "determining go package directories"
          /\ files = <<>>
          /\ fsDirs = {}
          /\ fsFiles = {}
    /\ iterErr = "nil" => result = NoResult /\ pc = "packageDirs"

C13_Witness ==
    /\ iterErr = "read"
    /\ Cardinality(dirs) = 2
    /\ iter # {}
    /\ result.isNil
    /\ pc = "fatal"

\* The output path of the unit x.
UnitPath(x) == fullImportPrefix(baseImportPrefix, x)

\* The resolved units x, y with y the directory index.html of x.
CollidingPairs ==
    LET at == [x \in result.dirs |-> UnitPath(x)]
    IN  { p \in result.dirs \X result.dirs :
            at[p[2]] = at[p[1]] \o <<"/">> \o INDEX_HTML }

\* The document of the unit x is on disk, whole.
WrittenUnit(x) ==
    \E r \in fsFiles :
        r.path = DocumentPath(UnitPath(x)) /\ r.data = Document(TemplateArgs(x))

\* The units whose iteration of the write loop is over.
Passed == { files[i].path : i \in 1..(fileIndex - 1) }

\* C14: with a directory and its directory index.html both among the units,
\* main never returns: whatever the order of the units, the write loop stops
\* in log.Fatalf, for os.MkdirAll or for ioutil.WriteFile, no later than at
\* the second of the two; at most one of the two documents is ever on disk,
\* and every file on disk holds the document of the unit it is the path of.
C14_CollisionAborts ==
    /\ pc = "done" => CollidingPairs = {}
    /\ pc = "write" =>
          \/ CollidingPairs = {}
          \/ /\ fileIndex <= Len(files)
             /\ \A p \in CollidingPairs :
                   ~({UnitPath(p[1]), UnitPath(p[2])} \subseteq Passed)
    /\ fsFiles # {} =>
          \/ CollidingPairs = {}
          \/ /\ \A p \in CollidingPairs : ~(WrittenUnit(p[1]) /\ WrittenUnit(p[2]))
             /\ \A r \in fsFiles :
                   \E i \in 1..Len(files) :
                       /\ r.path = DocumentPath(files[i].path)
                       /\ r.data.args = files[i].contents
    /\ (pc = "fatal" /\ fileIndex > 0) =>
          \/ CollidingPairs = {}
          \/ fatal.msg \in {"making directory", "writing file"}

\* ioutil.WriteFile has failed on the directory made for the unit written before.
C14_Witness ==
    /\ pc = "fatal"
    /\ fatal.msg = "writing file"
    /\ fatal.path \in fsDirs
    /\ \E p \in CollidingPairs :
          /\ fatal.path = DocumentPath(UnitPath(p[1]))
          /\ WrittenUnit(p[2])
          /\ ~WrittenUnit(p[1])

====
